---- MODULE Spec2Model ----
(***************************************************************************)
(* KOReader Lua metadata to Markdown converter.                            *)
(*                                                                         *)
(* Python strings are modelled as sequences of atoms.  An atom is one      *)
(* character ("a", " ", ":", "\n"), or, inside a template, one replacement *)
(* field of str.format ("{title}") or one brace escape ("{{", "}}").       *)
(* A Python dict is a function whose DOMAIN is the dict's key set.         *)
(* A call that may raise returns a record [exc, val]: exc = "none" when    *)
(* the call returned val, otherwise the name of the exception raised.      *)
(***************************************************************************)
EXTENDS Integers, Sequences, FiniteSets, TLC

VARIABLES
    \* main of koreader_lua_to_markdown.py: the command line, the files it
    \* reads, and its locals
    pc,              \* the statement main is at
    config_file,     \* the TOML file load_config looks at
    lua_file,        \* the LUA_FILE argument's file
    output,          \* the --output option, [has, v]
    DEFAULT_CONFIG,  \* the module global
    config, metadata, gen,   \* gen: what generate_markdown returned
    files,           \* the output files on disk: name -> content
    exit_code,
    now,             \* datetime.now()
    \* format_template called on its own
    template, kwargs, result,
    \* parse_bookmark_datetime and format_date_for_yaml called on their own
    datetime_str, stamp, date,
    \* parse_annotation_text and parse_author_name called on their own
    raw_annotation, parsed_annotation, raw_author, parsed_name,
    \* batch_convert of batch_convert.py, run after run on one output directory
    \* (the directory's files are `files`)
    metadata_files,  \* what find_metadata_files returned, in scan order
    run,             \* which run of the batch converter this is
    index,           \* how many files the for loop has been through
    successful, failed, skipped,
    log,             \* per run and file: [status, filename, position] of the iteration
    before           \* the output directory when the run started

mainVars == <<pc, config_file, lua_file, output, DEFAULT_CONFIG, config,
              metadata, gen, files, exit_code>>
templateVars == <<template, kwargs, result>>
dateVars == <<datetime_str, stamp, date>>
parserVars == <<raw_annotation, parsed_annotation, raw_author, parsed_name>>

batchVars == <<metadata_files, run, index, successful, failed, skipped, log, before>>

vars == <<mainVars, now, templateVars, dateVars, parserVars, batchVars>>

---------------------------------------------------------------------------
(* Python str methods used by the converter *)

\* the characters str.strip() removes that occur in the model's alphabet
Whitespace == {" ", "\n", "\t"}

RECURSIVE LStrip(_)
LStrip(s) ==
    IF Len(s) > 0 /\ Head(s) \in Whitespace THEN LStrip(Tail(s)) ELSE s

RECURSIVE RStrip(_)
RStrip(s) ==
    IF Len(s) > 0 /\ s[Len(s)] \in Whitespace
    THEN RStrip(SubSeq(s, 1, Len(s) - 1))
    ELSE s

\* str.strip()
Strip(s) == RStrip(LStrip(s))

\* str.endswith(suffix)
EndsWith(s, suffix) ==
    /\ Len(s) >= Len(suffix)
    /\ SubSeq(s, Len(s) - Len(suffix) + 1, Len(s)) = suffix

\* the indices at which sep occurs in s, and the k-th of them in order
\* (0 before the first, Len(s) + 1 after the last)
SepIndices(s, sep) == {i \in 1..Len(s) : s[i] = sep}

SepIndex(s, sep, k) ==
    IF k = 0 THEN 0
    ELSE IF k > Cardinality(SepIndices(s, sep)) THEN Len(s) + 1
    ELSE CHOOSE i \in SepIndices(s, sep) :
            Cardinality({j \in SepIndices(s, sep) : j < i}) = k - 1

\* str.split(sep) for a one-character separator
Split(s, sep) ==
    [k \in 1..(Cardinality(SepIndices(s, sep)) + 1) |->
        SubSeq(s, SepIndex(s, sep, k - 1) + 1, SepIndex(s, sep, k) - 1)]

\* sep.join(parts)
RECURSIVE Join(_, _)
Join(parts, sep) ==
    IF Len(parts) = 0 THEN <<>>
    ELSE IF Len(parts) = 1 THEN parts[1]
    ELSE parts[1] \o <<sep>> \o Join(Tail(parts), sep)

\* a call's outcome
Return(v) == [exc |-> "none", val |-> v]
Raise(e) == [exc |-> e, val |-> <<>>]

---------------------------------------------------------------------------
(* str.format: the replacement fields a template may hold *)

FieldName ==
    ("{title}" :> "title") @@ ("{lastname}" :> "lastname") @@
    ("{firstname}" :> "firstname") @@ ("{rating}" :> "rating") @@
    ("{note}" :> "note") @@ ("{date_created}" :> "date_created") @@
    ("{date_updated}" :> "date_updated") @@ ("{text}" :> "text") @@
    ("{page}" :> "page") @@ ("{annotation}" :> "annotation") @@
    ("{time}" :> "time") @@ ("{timestamp}" :> "timestamp") @@
    ("{isbn}" :> "isbn")

IsField(a) == a \in DOMAIN FieldName

\* str.format raises KeyError at a replacement field whose name is no keyword
MissingField(t, kw) ==
    \E i \in 1..Len(t) : IsField(t[i]) /\ FieldName[t[i]] \notin DOMAIN kw

\* what str.format writes for one atom of the template
Piece(a, kw) ==
    IF IsField(a) THEN kw[FieldName[a]]
    ELSE IF a = "{{" THEN <<"{">>
    ELSE IF a = "}}" THEN <<"}">>
    ELSE <<a>>

\* the pieces of all atoms, joined in order
RECURSIVE Substitute(_, _)
Substitute(t, kw) ==
    IF Len(t) = 0 THEN <<>>
    ELSE IF Len(t) = 1 THEN Piece(t[1], kw)
    ELSE    Substitute(SubSeq(t, 1, Len(t) \div 2), kw)
         \o Substitute(SubSeq(t, Len(t) \div 2 + 1, Len(t)), kw)

StrFormat(t, kw) ==
    IF MissingField(t, kw) THEN Raise("KeyError") ELSE Return(Substitute(t, kw))

---------------------------------------------------------------------------
(* format_template *)

formatted_kwargs(kw) ==
    [key \in DOMAIN kw |->
        IF key = "page" /\ Len(kw[key]) > 0
        THEN <<" ", "(", "S", "e", "i", "t", "e", " ">> \o kw[key] \o <<")">>
        ELSE IF key = "time" /\ Len(kw[key]) > 0
        THEN <<" ", "@", " ">> \o kw[key]
        ELSE kw[key]]

\* the condition under which a line is appended to cleaned_lines
KeepLine(line) ==
    \/ ~EndsWith(Strip(line), <<":">>)
    \/ ~EndsWith(Strip(line), <<":", " ">>)

cleaned_lines(text) == SelectSeq(Split(text, "\n"), KeepLine)

\* a handler that lets the KeyError through instead; the properties of
\* format_template must tell it from KeyErrorHandler
KeyErrorReraised(t, e) == Raise(e)

KeyErrorHandler(t, e) == Return(t)

\* the try block after str.format, and the handler
FormatOutcome(t, formatted) ==
    IF formatted.exc = "KeyError" THEN KeyErrorHandler(t, formatted.exc)
    ELSE Return(Join(cleaned_lines(formatted.val), "\n"))

format_template(t, kw) == FormatOutcome(t, StrFormat(t, formatted_kwargs(kw)))

---------------------------------------------------------------------------
(* datetime.strptime(s, "%Y-%m-%d %H:%M:%S") and datetime.strftime *)

Digits == {"0", "1", "2", "3", "4", "5", "6", "7", "8", "9"}

DigitVal ==
    ("0" :> 0) @@ ("1" :> 1) @@ ("2" :> 2) @@ ("3" :> 3) @@ ("4" :> 4) @@
    ("5" :> 5) @@ ("6" :> 6) @@ ("7" :> 7) @@ ("8" :> 8) @@ ("9" :> 9)

DigitChar == <<"0", "1", "2", "3", "4", "5", "6", "7", "8", "9">>

IsDigitAt(s, i) == i >= 1 /\ i <= Len(s) /\ s[i] \in Digits

\* the value of the digits s[i..j]
RECURSIVE NumberAt(_, _, _)
NumberAt(s, i, j) ==
    IF j < i THEN 0 ELSE 10 * NumberAt(s, i, j - 1) + DigitVal[s[j]]

\* the decimal digits of n, without padding
RECURSIVE PyStr(_)
PyStr(n) == IF n < 10 THEN <<DigitChar[n + 1]>>
            ELSE PyStr(n \div 10) \o <<DigitChar[(n % 10) + 1]>>

\* a two-digit directive of strftime (%y %m %d %H %M)
Pad2(n) == <<DigitChar[(n \div 10) + 1], DigitChar[(n % 10) + 1]>>

NoMatch == [ok |-> FALSE, val |-> 0, next |-> 0]

\* %Y: exactly four digits
MatchYear(s, i) ==
    IF \A k \in i..(i + 3) : IsDigitAt(s, k)
    THEN [ok |-> TRUE, val |-> NumberAt(s, i, i + 3), next |-> i + 4]
    ELSE NoMatch

\* a one- or two-digit directive whose value lies in lo..hi, which must be
\* followed by `after` (a set of atoms; {} stands for the end of the pattern).
\* The regular expression tries the two-digit alternatives first and falls
\* back to one digit when what follows does not match.
Follows(s, k, after) == after = {} \/ (k <= Len(s) /\ s[k] \in after)

\* a leading zero is a two-digit alternative only
TwoDigits(s, i, lo, hi) ==
    /\ IsDigitAt(s, i) /\ IsDigitAt(s, i + 1)
    /\ NumberAt(s, i, i + 1) >= lo /\ NumberAt(s, i, i + 1) <= hi

OneDigit(s, i, minOne) == IsDigitAt(s, i) /\ DigitVal[s[i]] >= minOne

MatchField(s, i, lo, hi, minOne, after) ==
    IF TwoDigits(s, i, lo, hi) /\ Follows(s, i + 2, after)
    THEN [ok |-> TRUE, val |-> NumberAt(s, i, i + 1), next |-> i + 2]
    ELSE IF OneDigit(s, i, minOne) /\ Follows(s, i + 1, after)
    THEN [ok |-> TRUE, val |-> DigitVal[s[i]], next |-> i + 1]
    ELSE NoMatch

\* %d also accepts a space followed by one digit 1-9
SpaceDay(s, i) ==
    IF i + 2 <= Len(s) /\ s[i] = " " /\ OneDigit(s, i + 1, 1)
       /\ s[i + 2] \in Whitespace
    THEN [ok |-> TRUE, val |-> DigitVal[s[i + 1]], next |-> i + 2]
    ELSE NoMatch

DayOr(s, i, plain) == IF plain.ok THEN plain ELSE SpaceDay(s, i)

MatchDay(s, i) == DayOr(s, i, MatchField(s, i, 1, 31, 1, Whitespace))

\* a blank of the format matches one or more whitespace characters
RECURSIVE SkipWhitespace(_, _)
SkipWhitespace(s, i) ==
    IF i <= Len(s) /\ s[i] \in Whitespace THEN SkipWhitespace(s, i + 1) ELSE i

IsLeap(y) == (y % 4 = 0 /\ y % 100 # 0) \/ y % 400 = 0

DaysInMonth(y, m) ==
    IF m = 2 THEN (IF IsLeap(y) THEN 29 ELSE 28)
    ELSE IF m \in {4, 6, 9, 11} THEN 30 ELSE 31

\* the last checks of strptime, on the fields matched
StrptimeFields(s, Y, m, d, H, M, S) ==
    IF ~S.ok THEN Raise("ValueError")                 \* does not match format
    ELSE IF S.next # Len(s) + 1 THEN Raise("ValueError")  \* unconverted data
    ELSE IF S.val > 59 THEN Raise("ValueError")       \* second must be in 0..59
    ELSE IF Y.val < 1 \/ d.val > DaysInMonth(Y.val, m.val)
    THEN Raise("ValueError")                          \* day is out of range
    ELSE Return([Y |-> Y.val, m |-> m.val, d |-> d.val,
                 H |-> H.val, M |-> M.val, S |-> S.val])

StrptimeSecond(s, Y, m, d, H, M) ==
    IF M.ok
    THEN StrptimeFields(s, Y, m, d, H, M, MatchField(s, M.next + 1, 0, 61, 0, {}))
    ELSE Raise("ValueError")

StrptimeMinute(s, Y, m, d, H) ==
    IF H.ok
    THEN StrptimeSecond(s, Y, m, d, H, MatchField(s, H.next + 1, 0, 59, 0, {":"}))
    ELSE Raise("ValueError")

StrptimeHour(s, Y, m, d) ==
    IF d.ok
    THEN StrptimeMinute(s, Y, m, d,
             MatchField(s, SkipWhitespace(s, d.next), 0, 23, 0, {":"}))
    ELSE Raise("ValueError")

StrptimeDay(s, Y, m) ==
    IF m.ok THEN StrptimeHour(s, Y, m, MatchDay(s, m.next + 1))
    ELSE Raise("ValueError")

StrptimeMonth(s, Y) ==
    IF Y.ok /\ Y.next <= Len(s) /\ s[Y.next] = "-"
    THEN StrptimeDay(s, Y, MatchField(s, Y.next + 1, 1, 12, 1, {"-"}))
    ELSE Raise("ValueError")

\* A value the Lua file gives as a number reaches Python as an int, not a
\* str.  The model writes such a value as this one atom.
IntValue == <<"int 20230704">>
IsStr(v) == v # IntValue

\* datetime.strptime: Return(the fields), or Raise("ValueError") when the
\* string does not match, the pattern being matched field by field, left to
\* right, or Raise("TypeError") when the argument is no str
Strptime(s) ==
    IF IsStr(s) THEN StrptimeMonth(s, MatchYear(s, 1)) ELSE Raise("TypeError")

\* dt.strftime("%y%m%d%H%M")
StrftimeStamp(dt) ==
    Pad2(dt.Y % 100) \o Pad2(dt.m) \o Pad2(dt.d) \o Pad2(dt.H) \o Pad2(dt.M)

\* dt.strftime("%Y-%m-%d")
StrftimeDate(dt) ==
    PyStr(dt.Y) \o <<"-">> \o Pad2(dt.m) \o <<"-">> \o Pad2(dt.d)

\* generate_timestamp; clock is datetime.now()
generate_timestamp(clock) == StrftimeStamp(clock)

StampFallback(clock) == Return(generate_timestamp(clock))

\* the try block and the handler of parse_bookmark_datetime, dt being what
\* strptime gave
StampOf(dt, clock) ==
    IF dt.exc = "ValueError" THEN StampFallback(clock)
    ELSE IF dt.exc = "none" THEN Return(StrftimeStamp(dt.val))
    ELSE dt     \* except ValueError lets every other exception through

parse_bookmark_datetime(dt_str, clock) == StampOf(Strptime(dt_str), clock)

DateFallback(clock) == Return(StrftimeDate(clock))

DateOf(dt, clock) ==
    IF dt.exc = "ValueError" THEN DateFallback(clock)
    ELSE IF dt.exc = "none" THEN Return(StrftimeDate(dt.val))
    ELSE dt

format_date_for_yaml(dt_str, clock) == DateOf(Strptime(dt_str), clock)

---------------------------------------------------------------------------
(* parse_annotation_text *)

StartsWith(s, prefix) ==
    Len(s) >= Len(prefix) /\ SubSeq(s, 1, Len(prefix)) = prefix

\* the end of the run of digits that starts at i (i itself when there is none)
RECURSIVE SkipDigits(_, _)
SkipDigits(s, i) == IF IsDigitAt(s, i) THEN SkipDigits(s, i + 1) ELSE i

\* "." matches every character but the line break
RECURSIVE SkipToLineEnd(_, _)
SkipToLineEnd(s, i) ==
    IF i <= Len(s) /\ s[i] # "\n" THEN SkipToLineEnd(s, i + 1) ELSE i

\* the last index <= i that holds no whitespace (0 when there is none)
RECURSIVE BackOverWhitespace(_, _)
BackOverWhitespace(s, i) ==
    IF i >= 1 /\ s[i] \in Whitespace THEN BackOverWhitespace(s, i - 1) ELSE i

\* the groups, given where the digits (d0..d1-1) and the rest (r0..) lie
PageGroups(s, d0, d1, r0) ==
    IF StartsWith(s, <<"P", "a", "g", "e">>) /\ d0 > 5 /\ d1 > d0 /\ r0 > d1
    THEN [ok |-> TRUE, g1 |-> SubSeq(s, d0, d1 - 1),
          g2 |-> SubSeq(s, r0, SkipToLineEnd(s, r0) - 1)]
    ELSE [ok |-> FALSE, g1 |-> <<>>, g2 |-> <<>>]

PageRest(s, d0, d1) == PageGroups(s, d0, d1, SkipWhitespace(s, d1))

PageDigits(s, d0) == PageRest(s, d0, SkipDigits(s, d0))

\* re.match(r'Page\s+(\d+)\s+(.*)', annotation_text)
PageMatch(s) == PageDigits(s, SkipWhitespace(s, 5))

\* s[i..j] has the shape of `pattern`, where "d" stands for \d
ShapeAt(s, i, pattern) ==
    /\ i >= 1
    /\ i + Len(pattern) - 1 <= Len(s)
    /\ \A k \in 1..Len(pattern) :
          IF pattern[k] = "d" THEN s[i + k - 1] \in Digits
          ELSE s[i + k - 1] = pattern[k]

\* the groups, given t0 (where the time starts), p (the last character of
\* the date) and q (the "@")
TimestampGroups(r, t0, p, q) ==
    IF /\ ShapeAt(r, t0, <<"d", "d", ":", "d", "d", ":", "d", "d">>)
       /\ p < t0 - 1
       /\ ShapeAt(r, p - 9, <<"d", "d", "d", "d", "-", "d", "d", "-", "d", "d">>)
       /\ q < p - 10
       /\ q >= 2
       /\ r[q] = "@"
       /\ r[q - 1] \in Whitespace
    THEN [ok |-> TRUE, g1 |-> SubSeq(r, 1, q - 2), g2 |-> SubSeq(r, p - 9, Len(r))]
    ELSE [ok |-> FALSE, g1 |-> <<>>, g2 |-> <<>>]

TimestampAt(r, t0, p) == TimestampGroups(r, t0, p, BackOverWhitespace(r, p - 10))

\* re.search(r'(.*)\s+@\s+(\d{4}-\d{2}-\d{2}\s+\d{2}:\d{2}:\d{2})$', remaining_text)
\* The pattern ends at the end of the text, so it is matched from the end.
TimestampMatch(r) == TimestampAt(r, Len(r) - 7, BackOverWhitespace(r, Len(r) - 8))

AnnotationParts(annotation_text, page_match, timestamp_match) ==
    IF ~page_match.ok
    THEN [page |-> <<>>, text |-> annotation_text, timestamp |-> <<>>]
    ELSE IF timestamp_match.ok
    THEN [page |-> page_match.g1, text |-> Strip(timestamp_match.g1),
          timestamp |-> timestamp_match.g2]
    ELSE [page |-> page_match.g1, text |-> Strip(page_match.g2),
          timestamp |-> <<>>]

AnnotationOf(annotation_text, page_match) ==
    AnnotationParts(annotation_text, page_match, TimestampMatch(page_match.g2))

parse_annotation_text(annotation_text) ==
    AnnotationOf(annotation_text, PageMatch(annotation_text))

---------------------------------------------------------------------------
(* parse_author_name *)

Contains(s, a) == \E i \in 1..Len(s) : s[i] = a

\* the index of the first occurrence of a in s
FirstIndex(s, a) == CHOOSE i \in 1..Len(s) : s[i] = a /\ \A k \in 1..(i - 1) : s[k] # a

\* str.split(sep, 1) of a string that holds sep
SplitAtIndex(s, i) == <<SubSeq(s, 1, i - 1), SubSeq(s, i + 1, Len(s))>>

\* a split at the last occurrence of sep instead; the properties of
\* parse_author_name must tell it from SplitOnce
SplitAtLast(s, sep) ==
    SplitAtIndex(s, CHOOSE i \in 1..Len(s) :
                        s[i] = sep /\ \A k \in (i + 1)..Len(s) : s[k] # sep)

SplitOnce(s, sep) == SplitAtIndex(s, FirstIndex(s, sep))

\* str.split(): the maximal runs of non-whitespace characters
RECURSIVE WordsFrom(_, _, _)
WordsFrom(s, i, cur) ==
    IF i > Len(s) THEN (IF Len(cur) > 0 THEN <<cur>> ELSE <<>>)
    ELSE IF s[i] \in Whitespace
    THEN (IF Len(cur) > 0 THEN <<cur>> ELSE <<>>) \o WordsFrom(s, i + 1, <<>>)
    ELSE WordsFrom(s, i + 1, Append(cur, s[i]))

SplitWords(s) == WordsFrom(s, 1, <<>>)

\* the branch taken for a text that holds a comma
NameFromComma(parts) == <<Strip(Strip(parts[1])), Strip(Strip(parts[2]))>>

\* the branch taken for a text that holds none
NameFromWords(author_text, parts) ==
    IF Len(parts) > 1
    THEN <<Strip(parts[Len(parts)]),
           Strip(Join(SubSeq(parts, 1, Len(parts) - 1), " "))>>
    ELSE <<Strip(author_text), Strip(<<>>)>>

\* returns <<lastname, firstname>>
parse_author_name(author_text) ==
    IF Contains(author_text, ",")
    THEN NameFromComma(SplitOnce(author_text, ","))
    ELSE NameFromWords(author_text, SplitWords(Strip(author_text)))

---------------------------------------------------------------------------
(* DEFAULT_CONFIG and load_config *)

\* the literal of DEFAULT_CONFIG
BuiltinDefaults ==
    [output |-> [filename_template |-> <<"{timestamp}", ".", "m", "d">>],
     templates |->
       [yaml_frontmatter |->
            <<"-", "-", "-", "\n">>
         \o <<"t", "a", "g", "s", ":", " ", "[", "b", "u", "c", "h", ",", " ",
              "g", "e", "l", "e", "s", "e", "n", ",", " ", "h", "i", "g", "h",
              "l", "i", "g", "h", "t", "s", "]", "\n">>
         \o <<"t", "i", "t", "l", "e", ":", " ", "{title}", "\n">>
         \o <<"a", "u", "t", "h", "o", "r", ":", " ", "{lastname}", ",", " ",
              "{firstname}", "{rating}", "{note}", "{date_created}",
              "{date_updated}", "\n">>
         \o <<"-", "-", "-", "\n">>
         \o <<"\n">>,
        intro |->
            <<"H", "i", "g", "h", "l", "i", "g", "h", "t", "s", " ", "f", "ü",
              "r", " ", "d", "a", "s", " ", "B", "u", "c", "h", " ", "{title}",
              " ", "v", "o", "n", " ", "{firstname}", " ", "{lastname}">>,
        summary_note |-> <<">", " ", "{note}">>,
        highlight |-> <<">", " ", "{text}">>,
        annotation |->
            <<"E", "i", "g", "e", "n", "e", "r", " ", "G", "e", "d", "a", "n",
              "k", "e", "{page}", ":", " ", "{annotation}", "{time}">>,
        separator |-> <<"-", "-", "-">>]]

\* d[key] = value
\* dict.setdefault in place of assignment: a key that is there keeps its
\* value; the properties of load_config must tell it from DictSet
DictSetDefault(d, key, value) == d @@ (key :> value)

DictSet(d, key, value) == (key :> value) @@ d

\* dict.update(section) for a value read from the TOML file.  A table merges
\* every entry.  An array is consumed element by element: each element that
\* is a pair sets a key, the first element that is no pair raises, and the
\* keys set before it stay set.  A scalar raises at once.
RECURSIVE UpdateFromItems(_, _)
UpdateFromItems(d, items) ==
    IF Len(items) = 0 THEN [exc |-> "none", dict |-> d]
    ELSE IF ~Head(items).pair THEN [exc |-> "ValueError", dict |-> d]
    ELSE UpdateFromItems(DictSet(d, Head(items).key, Head(items).value), Tail(items))

DictUpdate(d, section) ==
    IF section.shape = "scalar" THEN [exc |-> "ValueError", dict |-> d]
    ELSE UpdateFromItems(d, section.items)

\* if name in config: result[name].update(config[name])
UpdateSection(d, doc, name) ==
    IF name \in DOMAIN doc THEN DictUpdate(d, doc[name])
    ELSE [exc |-> "none", dict |-> d]

\* the templates section is merged unless merging the output section raised
MergeTemplates(defaults, doc, out) ==
    [output |-> out.dict,
     templates |-> IF out.exc = "none"
                   THEN UpdateSection(defaults.templates, doc, "templates").dict
                   ELSE defaults.templates]

\* result = DEFAULT_CONFIG.copy() is a shallow copy: result['output'] and
\* result['templates'] are the dict objects DEFAULT_CONFIG holds, so each
\* update writes into DEFAULT_CONFIG.  The call returns result, or in the
\* handler DEFAULT_CONFIG; both hold the same two section objects.
MergeSections(defaults, doc) ==
    MergeTemplates(defaults, doc, UpdateSection(defaults.output, doc, "output"))

LoadedConfig(merged) == [config |-> merged, defaults |-> merged]

\* load_config returns [config, defaults]: the dict returned and the contents
\* of DEFAULT_CONFIG after the call
load_config(cfg_file, defaults) ==
    IF cfg_file.kind = "missing"
    THEN [config |-> defaults, defaults |-> defaults]
    ELSE IF cfg_file.kind = "unloadable"     \* toml.load raises
    THEN [config |-> defaults, defaults |-> defaults]
    ELSE LoadedConfig(MergeSections(defaults, cfg_file.doc))

---------------------------------------------------------------------------
(* generate_markdown *)

PyNone == [none |-> TRUE]
IsNone(v) == "none" \in DOMAIN v

EmptyDict == <<>>

Truthy(s) == Len(s) > 0

\* the value of an optional key, as [has, v]
Get(d, key) ==
    IF key \in DOMAIN d THEN [has |-> TRUE, v |-> d[key]]
    ELSE [has |-> FALSE, v |-> <<>>]

\* the list in extraction order, without reversed(); the properties of the
\* loop must tell it from ReversedIndices
ForwardIndices(n) == [i \in 1..n |-> i]

\* a `continue` for absent notes only; the properties of the loop must tell
\* it from SkipBookmark
SkipAbsentNotes(bookmark) == "notes" \notin DOMAIN bookmark

\* reversed(bookmark_list), as the indices visited
RECURSIVE ReversedIndices(_)
ReversedIndices(n) == IF n = 0 THEN <<>> ELSE <<n>> \o ReversedIndices(n - 1)

\* the loop's `continue`
SkipBookmark(bookmark) ==
    "notes" \notin DOMAIN bookmark \/ ~Truthy(Strip(bookmark.notes))

HasAnnotation(bookmark) ==
    "text" \in DOMAIN bookmark /\ Truthy(Strip(bookmark.text))

HighlightCall(bookmark, templates) ==
    format_template(templates.highlight, [text |-> bookmark.notes])

AnnotationFormat(annotation_data, templates) ==
    format_template(templates.annotation,
                    [annotation |-> annotation_data.text,
                     page |-> annotation_data.page,
                     time |-> annotation_data.timestamp])

AnnotationCall(bookmark, templates) ==
    AnnotationFormat(parse_annotation_text(bookmark.text), templates)

\* what one iteration that is not skipped appends to highlights_content, as
\* [exc, val]; highlight and annotation are what the format_template calls gave
BlockOf(highlight, annotation, templates) ==
    IF highlight.exc # "none" \/ annotation.exc # "none" THEN Raise("KeyError")
    ELSE Return(   highlight.val \o <<"\n", "\n">>
                \o annotation.val
                \o templates.separator \o <<"\n", "\n">>)

AnnotationLines(call) ==
    IF call.exc = "none" THEN Return(call.val \o <<"\n", "\n">>) ELSE call

HighlightBlock(bookmark, templates) ==
    BlockOf(HighlightCall(bookmark, templates),
            IF HasAnnotation(bookmark)
            THEN AnnotationLines(AnnotationCall(bookmark, templates))
            ELSE Return(<<>>),
            templates)

\* one iteration of the loop: block is what the iteration appends, rest what
\* the iterations after it give
Iteration(i, bookmark, block, rest) ==
    IF SkipBookmark(bookmark) THEN rest
    ELSE IF block.exc # "none"
    THEN [exc |-> block.exc, content |-> <<>>, rendered |-> <<>>]
    ELSE [exc |-> rest.exc,
          content |-> block.val \o rest.content,
          rendered |-> <<i>> \o rest.rendered]

\* the loop over `order`: [exc, content, rendered], rendered being the
\* indices of the bookmarks a block was appended for, in the order appended
RECURSIVE HighlightsLoop(_, _, _)
HighlightsLoop(bookmark_list, order, templates) ==
    IF Len(order) = 0 THEN [exc |-> "none", content |-> <<>>, rendered |-> <<>>]
    ELSE Iteration(Head(order), bookmark_list[Head(order)],
                   IF SkipBookmark(bookmark_list[Head(order)]) THEN Return(<<>>)
                   ELSE HighlightBlock(bookmark_list[Head(order)], templates),
                   HighlightsLoop(bookmark_list, Tail(order), templates))

\* the fields read from the metadata tree
Stats(meta) == IF "stats" \in DOMAIN meta THEN meta.stats ELSE EmptyDict
Summary(meta) == IF "summary" \in DOMAIN meta THEN meta.summary ELSE EmptyDict

Title(meta) ==
    IF "title" \in DOMAIN Stats(meta) THEN Stats(meta).title
    ELSE <<"U", "n", "k", "n", "o", "w", "n", " ", "T", "i", "t", "l", "e">>

Authors(meta) ==
    IF "authors" \in DOMAIN Stats(meta) THEN Stats(meta).authors
    ELSE <<"U", "n", "k", "n", "o", "w", "n", " ", "A", "u", "t", "h", "o", "r">>

\* rating_value; str(rating) is what str.format substitutes for a number
RatingValue(meta) ==
    IF "rating" \in DOMAIN Summary(meta) THEN PyStr(Summary(meta).rating) ELSE <<>>

\* summary_note when it is there and not empty, else ""
NoteValue(meta) ==
    IF "note" \in DOMAIN Summary(meta) THEN Summary(meta).note ELSE <<>>

BookmarkList(meta) ==
    IF "bookmarks" \in DOMAIN meta THEN meta.bookmarks ELSE <<>>

\* the last bookmark that carries a datetime, the last one when none does;
\* the properties of the front-matter dates must tell it from LastIndexOf
LastDatedIndexOf(bookmark_list) ==
    IF \E i \in 1..Len(bookmark_list) : "datetime" \in DOMAIN bookmark_list[i]
    THEN CHOOSE i \in 1..Len(bookmark_list) :
            /\ "datetime" \in DOMAIN bookmark_list[i]
            /\ \A j \in (i + 1)..Len(bookmark_list) :
                  "datetime" \notin DOMAIN bookmark_list[j]
    ELSE Len(bookmark_list)

\* the first bookmark that carries a datetime, the first one when none does;
\* the properties of the filename timestamp must tell it from FirstIndexOf
FirstDatedIndexOf(bookmark_list) ==
    IF \E i \in 1..Len(bookmark_list) : "datetime" \in DOMAIN bookmark_list[i]
    THEN CHOOSE i \in 1..Len(bookmark_list) :
            /\ "datetime" \in DOMAIN bookmark_list[i]
            /\ \A j \in 1..(i - 1) : "datetime" \notin DOMAIN bookmark_list[j]
    ELSE 1

\* bookmark_list[0] and bookmark_list[-1]
FirstIndexOf(bookmark_list) == 1
LastIndexOf(bookmark_list) == Len(bookmark_list)

\* the datetime of the bookmark at index i, as [has, v]
BookmarkDatetime(bookmark_list, i) ==
    IF Len(bookmark_list) = 0 THEN [has |-> FALSE, v |-> <<>>]
    ELSE Get(bookmark_list[i], "datetime")

CreatedAt(meta) == BookmarkDatetime(BookmarkList(meta), FirstIndexOf(BookmarkList(meta)))
UpdatedAt(meta) == BookmarkDatetime(BookmarkList(meta), LastIndexOf(BookmarkList(meta)))

\* a timestamp that is always the current time; the properties of the batch
\* runs must tell it from Timestamp
TimestampNow(created_at, clock) == Return(generate_timestamp(clock))

\* timestamp, from created_at
Timestamp(created_at, clock) ==
    IF created_at.has /\ Truthy(created_at.v)
    THEN parse_bookmark_datetime(created_at.v, clock)
    ELSE Return(generate_timestamp(clock))

\* date_created_value and date_updated_value
DateValue(at, clock) ==
    IF at.has /\ Truthy(at.v) THEN format_date_for_yaml(at.v, clock)
    ELSE Return(<<>>)

YamlKwargs(meta, name, date_created, date_updated) ==
    [title |-> Title(meta), lastname |-> name[1], firstname |-> name[2],
     rating |-> RatingValue(meta), note |-> NoteValue(meta),
     date_created |-> date_created.val, date_updated |-> date_updated.val]

IntroKwargs(meta, name) ==
    [title |-> Title(meta), firstname |-> name[2], lastname |-> name[1]]

NoteLine(note, templates) ==
    IF Truthy(note) THEN format_template(templates.summary_note, [note |-> note])
    ELSE Return(<<>>)

\* intro_text after the summary note and the blank line are appended
IntroText(intro, note, note_line) ==
       intro.val
    \o (IF Truthy(note) THEN <<"\n", "\n">> \o note_line.val ELSE <<>>)
    \o <<"\n", "\n">>

GenerateFailed == [exc |-> "ValueError", md |-> <<>>, timestamp |-> <<>>,
                   yaml_frontmatter |-> <<>>, intro_text |-> <<>>,
                   highlights_content |-> <<>>, rendered |-> <<>>]

\* md = yaml_frontmatter + intro_text + highlights_content.strip(), unless a
\* call above raised: except Exception re-raises as ValueError
Combine(timestamp, date_created, date_updated, yaml_frontmatter, intro, note_line, intro_text, loop) ==
    IF \/ timestamp.exc # "none"
       \/ date_created.exc # "none"
       \/ date_updated.exc # "none"
       \/ yaml_frontmatter.exc # "none"
       \/ intro.exc # "none"
       \/ note_line.exc # "none"
       \/ loop.exc # "none"
    THEN GenerateFailed
    ELSE [exc |-> "none",
          md |-> yaml_frontmatter.val \o intro_text \o Strip(loop.content),
          timestamp |-> timestamp.val,
          yaml_frontmatter |-> yaml_frontmatter.val,
          intro_text |-> intro_text,
          highlights_content |-> loop.content,
          rendered |-> loop.rendered]

Render(meta, templates, timestamp, date_created, date_updated, intro, note_line) ==
    Combine(timestamp, date_created, date_updated,
            format_template(templates.yaml_frontmatter,
                YamlKwargs(meta, parse_author_name(Authors(meta)),
                           date_created, date_updated)),
            intro, note_line,
            IntroText(intro, NoteValue(meta), note_line),
            HighlightsLoop(BookmarkList(meta),
                           ReversedIndices(Len(BookmarkList(meta))), templates))

\* returns [exc, md, timestamp] and, for the properties, the locals
\* yaml_frontmatter, intro_text, highlights_content and the loop's rendered
generate_markdown(meta, cfg, clock) ==
    IF IsNone(meta) THEN GenerateFailed  \* 'bookmarks' in None: TypeError
    ELSE Render(meta, cfg.templates,
                Timestamp(CreatedAt(meta), clock),
                DateValue(CreatedAt(meta), clock),
                DateValue(UpdatedAt(meta), clock),
                format_template(cfg.templates.intro,
                    IntroKwargs(meta, parse_author_name(Authors(meta)))),
                NoteLine(NoteValue(meta), cfg.templates))

---------------------------------------------------------------------------
(* parse_lua and save_markdown *)

\* parse_lua: the file holds Lua that evaluates to a table or to nil, or Lua
\* that does not evaluate
parse_lua(file) ==
    IF file.kind = "missing" THEN Raise("FileNotFoundError")
    ELSE IF file.kind = "unparseable" THEN Raise("ValueError")
    ELSE Return(file.metadata)

\* open(output_path, 'w') and f.write(markdown).  The disk decides: the file
\* is written, or open fails and nothing changes, or write fails after open
\* has created or emptied the file.
SaveOutcomes == {"written", "open_fails", "write_fails"}

\* a save that leaves no file behind; the properties of the batch run's
\* output names must tell it from WriteFile
NoWrite(fs, name, content) == fs

WriteFile(fs, name, content) == (name :> content) @@ fs

save_markdown(fs, markdown, output_path, outcome) ==
    IF outcome = "written"
    THEN [exc |-> "none", files |-> WriteFile(fs, output_path, markdown)]
    ELSE IF outcome = "write_fails"
    THEN [exc |-> "IOError", files |-> WriteFile(fs, output_path, <<>>)]
    ELSE [exc |-> "IOError", files |-> fs]

\* f"{timestamp}.md"
TimestampFilename(timestamp) == timestamp \o <<".", "m", "d">>

---------------------------------------------------------------------------
(* bounded inputs *)

MaxBookmarks == 3
MaxClock == 1
MaxTemplateLines == 2

\* datetime.now(): MaxClock + 1 successive minutes
ClockAt(k) == [Y |-> 2024, m |-> 1, d |-> 1, H |-> 10, M |-> k]
ClockInputs == { ClockAt(k) : k \in 0..MaxClock }

Str1 == <<"2", "0", "2", "3", "-", "0", "7", "-", "0", "4", " ",
          "0", "8", ":", "1", "5", ":", "0", "0">>
Str2 == <<"2", "0", "2", "4", "-", "0", "1", "-", "0", "1", " ",
          "1", "0", ":", "0", "0", ":", "3", "0">>
Str3 == <<"2", "0", "2", "2", "-", "1", "2", "-", "3", "1", " ",
          "2", "3", ":", "5", "9", ":", "5", "9">>

BookmarkInputs ==
    { [notes |-> <<"a">>, datetime |-> Str1],
      [notes |-> <<"b", " ">>, datetime |-> Str2,
       text |-> <<"P", "a", "g", "e", " ", "7", " ", "t", " ", "@", " ">> \o Str1],
      [notes |-> <<" ", "\n">>, datetime |-> Str3, text |-> <<"x">>],
      [text |-> <<"y">>],
      [notes |-> <<"d">>, text |-> <<" ">>] }

RECURSIVE ListsUpTo(_, _)
ListsUpTo(S, n) ==
    IF n = 0 THEN {<<>>}
    ELSE LET shorter == ListsUpTo(S, n - 1)
         IN  shorter \cup { <<x>> \o l : x \in S, l \in { r \in shorter : Len(r) = n - 1 } }

BookmarkListInputs == ListsUpTo(BookmarkInputs, MaxBookmarks)

MetadataInputs ==
    { [bookmarks |-> bl] : bl \in BookmarkListInputs }
    \cup
    { [stats |-> [title |-> <<"B">>, authors |-> <<"J", " ", "D">>],
       summary |-> [rating |-> 5, note |-> <<"n">>],
       bookmarks |-> bl] : bl \in BookmarkListInputs }

LuaFileInputs ==
    { [kind |-> "unparseable", metadata |-> PyNone],
      [kind |-> "table", metadata |-> PyNone] }
    \cup { [kind |-> "table", metadata |-> m] : m \in MetadataInputs }

Table(entries) == [shape |-> "table", items |-> entries]
Pair(k, v) == [pair |-> TRUE, key |-> k, value |-> v]
NoPair == [pair |-> FALSE, key |-> "", value |-> <<>>]

TomlFile(doc) == [kind |-> "toml", doc |-> doc]
MissingFile == [kind |-> "missing", doc |-> EmptyDict]
UnloadableFile == [kind |-> "unloadable", doc |-> EmptyDict]

\* the configurations main renders the metadata inputs with
ConfigFileInputs ==
    { MissingFile,
      TomlFile([templates |-> Table(<<Pair("highlight", <<"*", " ", "{text}">>),
                                      Pair("separator", <<" ">>)>>)]),
      TomlFile([templates |-> Table(<<Pair("highlight", <<"{isbn}", ":">>),
                                      Pair("yaml_frontmatter",
                                           <<"t", ":", " ", "{title}", "\n",
                                             "c", ":", " ", "{date_created}", "\n",
                                             "u", ":", " ", "{date_updated}", "\n">>)>>)]) }

OutputInputs == { [has |-> FALSE, v |-> <<>>], [has |-> TRUE, v |-> <<"o", ".", "m", "d">>] }

NoConfig == [output |-> EmptyDict, templates |-> EmptyDict]
NoGen == [exc |-> "nocall", md |-> <<>>, timestamp |-> <<>>,
          yaml_frontmatter |-> <<>>, intro_text |-> <<>>,
          highlights_content |-> <<>>, rendered |-> <<>>]
NoCall == [exc |-> "nocall", val |-> <<>>]
NoFiles == <<>>

---------------------------------------------------------------------------
(* main of koreader_lua_to_markdown.py, statement by statement *)

IdleTemplate == template = <<>> /\ kwargs = EmptyDict /\ result = NoCall
IdleDate == datetime_str = <<>> /\ stamp = NoCall /\ date = NoCall
IdleParsers ==
    /\ raw_annotation = <<>> /\ parsed_annotation = NoCall
    /\ raw_author = <<>> /\ parsed_name = NoCall
IdleBatch ==
    /\ metadata_files = <<>> /\ run = 0 /\ index = 0
    /\ successful = 0 /\ failed = 0 /\ skipped = 0
    /\ log = <<>> /\ before = NoFiles

InitMain(configs, luas) ==
    /\ pc = "load_config"
    /\ config_file \in configs
    /\ lua_file \in luas
    /\ output \in OutputInputs
    /\ DEFAULT_CONFIG = BuiltinDefaults
    /\ config = NoConfig
    /\ metadata = PyNone
    /\ gen = NoGen
    /\ files = NoFiles
    /\ exit_code = -1
    /\ now = ClockAt(0)
    /\ IdleTemplate
    /\ IdleDate
    /\ IdleParsers
    /\ IdleBatch

Init == InitMain(ConfigFileInputs, LuaFileInputs)

\* config = load_config(config)
LoadConfig ==
    /\ pc = "load_config"
    /\ config' = load_config(config_file, DEFAULT_CONFIG).config
    /\ DEFAULT_CONFIG' = load_config(config_file, DEFAULT_CONFIG).defaults
    /\ pc' = "parse_lua"
    /\ UNCHANGED <<config_file, lua_file, output, metadata, gen, files, exit_code,
                   now, templateVars, dateVars, parserVars, batchVars>>

\* a handler that reports and returns, without sys.exit(1); the properties
\* of main must tell it from Fail
ReportOnly == pc' = "exit" /\ exit_code' = 0

\* the handler of main: report and sys.exit(1)
Fail == pc' = "exit" /\ exit_code' = 1

\* metadata = parse_lua(lua_file)
ParseLua ==
    /\ pc = "parse_lua"
    /\ IF parse_lua(lua_file).exc = "none"
       THEN /\ metadata' = parse_lua(lua_file).val
            /\ pc' = "generate_markdown"
            /\ UNCHANGED exit_code
       ELSE Fail /\ UNCHANGED metadata
    /\ UNCHANGED <<config_file, lua_file, output, DEFAULT_CONFIG, config, gen,
                   files, now, templateVars, dateVars, parserVars, batchVars>>

\* markdown, timestamp = generate_markdown(metadata, config)
GenerateMarkdown ==
    /\ pc = "generate_markdown"
    /\ gen' = generate_markdown(metadata, config, now)
    /\ IF gen'.exc = "none"
       THEN pc' = "save_markdown" /\ UNCHANGED exit_code
       ELSE Fail
    /\ UNCHANGED <<config_file, lua_file, output, DEFAULT_CONFIG, config,
                   metadata, files, now, templateVars, dateVars, parserVars, batchVars>>

\* output, or Path(f"{timestamp}.md") when the option is not given
OutputPath == IF output.has THEN output.v ELSE TimestampFilename(gen.timestamp)

\* save_markdown(markdown, output), then return
SaveMarkdown ==
    /\ pc = "save_markdown"
    /\ \E outcome \in SaveOutcomes :
          /\ files' = save_markdown(files, gen.md, OutputPath, outcome).files
          /\ IF outcome = "written"
             THEN pc' = "exit" /\ exit_code' = 0
             ELSE Fail
    /\ UNCHANGED <<config_file, lua_file, output, DEFAULT_CONFIG, config,
                   metadata, gen, now, templateVars, dateVars, parserVars, batchVars>>

Next == LoadConfig \/ ParseLua \/ GenerateMarkdown \/ SaveMarkdown

Spec == Init /\ [][Next]_vars

---------------------------------------------------------------------------
(* main with the configuration files load_config has to cope with *)

LoadedConfigFileInputs ==
    { TomlFile(doc) : doc \in
        { [output |-> o, templates |-> t] :
            o \in { Table(<<>>),
                    Table(<<Pair("filename_template", <<"{title}", ".", "m", "d">>)>>),
                    Table(<<Pair("suffix", <<"x">>)>>),
                    [shape |-> "scalar", items |-> <<>>] },
            t \in { Table(<<Pair("highlight", <<"*", " ", "{text}">>)>>),
                    Table(<<Pair("separator", <<"*">>), Pair("intro", <<"{title}">>)>>),
                    Table(<<Pair("footer", <<"f">>)>>),
                    [shape |-> "scalar", items |-> <<>>],
                    [shape |-> "array",
                     items |-> <<Pair("highlight", <<"X">>), NoPair>>] } }
        \cup
        { [output |-> o] :
            o \in { Table(<<Pair("filename_template", <<"{title}", ".", "m", "d">>)>>),
                    [shape |-> "scalar", items |-> <<>>] } }
        \cup
        { [templates |-> t] :
            t \in { Table(<<Pair("highlight", <<"*", " ", "{text}">>)>>),
                    [shape |-> "scalar", items |-> <<>>],
                    [shape |-> "array",
                     items |-> <<Pair("highlight", <<"X">>), NoPair>>] } }
        \cup { EmptyDict } }

ConfigInputs == {MissingFile, UnloadableFile} \cup LoadedConfigFileInputs

ConfigLuaInputs ==
    { [kind |-> "unparseable", metadata |-> PyNone],
      [kind |-> "table", metadata |-> PyNone] }
    \cup { [kind |-> "table", metadata |-> [bookmarks |-> bl]] :
             bl \in ListsUpTo(BookmarkInputs, 1) }

InitConfig == InitMain(ConfigInputs, ConfigLuaInputs)

SpecConfig == InitConfig /\ [][Next]_vars

---------------------------------------------------------------------------
(* format_template called on its own, and by generate_markdown *)

IdleMain ==
    /\ pc = "idle"
    /\ config_file = MissingFile
    /\ lua_file = [kind |-> "missing", metadata |-> PyNone]
    /\ output = [has |-> FALSE, v |-> <<>>]
    /\ DEFAULT_CONFIG = BuiltinDefaults
    /\ config = NoConfig
    /\ metadata = PyNone
    /\ files = NoFiles
    /\ exit_code = -1

TemplateLineInputs ==
    { <<"t", ":", " ", "{title}">>,
      <<"r", ":", " ", "{rating}">>,
      <<"n", ":", "{note}">>,
      <<"{note}", ":">>,
      <<"{title}", "{rating}">>,
      <<"{{", "{title}", "}}">>,
      <<"i", ":", " ", "{isbn}">>,
      <<"{page}", "{time}">>,
      <<"-">> }

RECURSIVE TemplatesOfLines(_)
TemplatesOfLines(n) ==
    IF n = 0 THEN {<<>>}
    ELSE LET shorter == TemplatesOfLines(n - 1)
         IN  shorter \cup
             { l \o <<"\n">> \o rest : l \in TemplateLineInputs, rest \in shorter }
             \cup TemplateLineInputs

TemplateInputs == TemplatesOfLines(MaxTemplateLines)

KwargsInputs ==
    { [title |-> ti, rating |-> ra, note |-> no, page |-> pt, time |-> pt] :
        ti \in {<<"T">>, <<>>}, ra \in {<<"5">>, <<>>},
        no \in {<<"x", ":">>, <<" ">>, <<>>}, pt \in {<<"7">>, <<>>} }

\* a book for generate_markdown to render with the template
SampleMetadata ==
    [stats |-> [title |-> <<"B">>, authors |-> <<"J", " ", "D">>],
     summary |-> [rating |-> 5],
     bookmarks |-> << [notes |-> <<"a">>, datetime |-> Str1] >>]

InitTemplate ==
    /\ template \in TemplateInputs
    /\ kwargs \in KwargsInputs
    /\ result = NoCall
    /\ gen = NoGen
    /\ now = ClockAt(0)
    /\ IdleMain
    /\ IdleDate
    /\ IdleParsers
    /\ IdleBatch

FormatTemplateCall ==
    /\ result = NoCall
    /\ result' = format_template(template, kwargs)
    /\ UNCHANGED <<template, kwargs, mainVars, now, dateVars, parserVars, batchVars>>

\* generate_markdown with `template` configured as the front matter template
GenerateWithTemplate ==
    /\ gen = NoGen
    /\ gen' = generate_markdown(SampleMetadata,
                 [BuiltinDefaults EXCEPT !.templates.yaml_frontmatter = template],
                 now)
    /\ UNCHANGED <<pc, config_file, lua_file, output, DEFAULT_CONFIG, config,
                   metadata, files, exit_code, now, templateVars, dateVars, parserVars, batchVars>>

NextTemplate == FormatTemplateCall \/ GenerateWithTemplate

SpecTemplate == InitTemplate /\ [][NextTemplate]_vars

---------------------------------------------------------------------------
(* parse_bookmark_datetime and format_date_for_yaml called on their own, and
   by generate_markdown for the first and last bookmark *)

\* datetime values put together from fields that are padded, unpadded or out
\* of range, around separators strptime takes or refuses
DatetimeOfFields ==
    { y \o <<"-">> \o mo \o <<"-">> \o d \o sep \o h \o <<":", "1", "5", ":">> \o sec :
        y \in {<<"2", "0", "2", "3">>, <<"2", "3">>},
        mo \in {<<"0", "7">>, <<"7">>, <<"1", "3">>, <<"0", "2">>},
        d \in {<<"0", "4">>, <<"4">>, <<"3", "1">>},
        sep \in {<<" ">>, <<" ", " ">>, <<"T">>},
        h \in {<<"0", "8">>, <<"8">>, <<"2", "4">>},
        sec \in {<<"0", "0">>, <<"0">>, <<"6", "0">>, <<"0", "0", " ">>} }

DatetimeInputs ==
    DatetimeOfFields
    \cup { Str2, Str3, <<>>, <<"?">>, SubSeq(Str1, 1, 10), <<" ">> \o Str1, IntValue }

\* a book whose only bookmark carries the datetime
BookOfDatetime(dt) == [bookmarks |-> << [notes |-> <<"a">>, datetime |-> dt] >>]

InitDate ==
    /\ datetime_str \in DatetimeInputs
    /\ now \in ClockInputs
    /\ stamp = NoCall
    /\ date = NoCall
    /\ gen = NoGen
    /\ IdleMain
    /\ IdleTemplate
    /\ IdleParsers
    /\ IdleBatch

ParseBookmarkDatetimeCall ==
    /\ stamp = NoCall
    /\ stamp' = parse_bookmark_datetime(datetime_str, now)
    /\ UNCHANGED <<datetime_str, date, mainVars, now, templateVars, parserVars, batchVars>>

FormatDateForYamlCall ==
    /\ date = NoCall
    /\ date' = format_date_for_yaml(datetime_str, now)
    /\ UNCHANGED <<datetime_str, stamp, mainVars, now, templateVars, parserVars, batchVars>>

\* generate_markdown(metadata) for the book whose bookmark carries datetime_str
GenerateWithDatetime ==
    /\ gen = NoGen
    /\ gen' = generate_markdown(BookOfDatetime(datetime_str), DEFAULT_CONFIG, now)
    /\ UNCHANGED <<pc, config_file, lua_file, output, DEFAULT_CONFIG, config,
                   metadata, files, exit_code, now, templateVars, dateVars, parserVars, batchVars>>

NextDate == ParseBookmarkDatetimeCall \/ FormatDateForYamlCall \/ GenerateWithDatetime

SpecDate == InitDate /\ [][NextDate]_vars

---------------------------------------------------------------------------
(* parse_annotation_text and parse_author_name called on their own, and by
   generate_markdown for the book's authors and a bookmark's text *)

MaxTokens == 3

\* annotation texts put together from a prefix that is or is not a page
\* prefix, a note of one or two lines, and an ending that is or is not a
\* timestamp suffix
AnnotationPrefixInputs ==
    { <<"P", "a", "g", "e", " ", "7", " ">>,
      <<"P", "a", "g", "e", " ", "\t", "1", "2", " ", " ">>,
      <<"P", "a", "g", "e", "\n", "7", "\n">>,
      <<"P", "a", "g", "e", " ", "7">>,
      <<"P", "a", "g", "e", "7", " ">>,
      <<"p", "a", "g", "e", " ", "7", " ">>,
      <<" ", "P", "a", "g", "e", " ", "7", " ">>,
      <<"P", "a", "g", "e", " ", "x", " ">>,
      <<>> }

AnnotationNoteInputs ==
    { <<"t">>, <<"t", " ">>, <<"s", " ", "t">>, <<"s", "\n", "t">>,
      <<"s", " ", "\n">>, <<"@">>, <<>> }

AnnotationSuffixInputs ==
    { <<>>,
      <<" ", "@", " ">> \o Str1,
      <<" ", " ", "@", "\t">> \o SubSeq(Str1, 1, 10) \o <<" ", " ">> \o SubSeq(Str1, 12, 19),
      <<"@", " ">> \o Str1,
      <<" ", "@">> \o Str1,
      <<" ", "@", " ">> \o Str1 \o <<" ">>,
      <<" ", "@", " ">> \o Str1 \o <<"\n">>,
      <<" ", "@", " ">> \o SubSeq(Str1, 1, 10),
      <<" ", "@", " ">> \o SubSeq(Str1, 1, 18) }

AnnotationTextInputs ==
    { prefix \o note \o suffix :
        prefix \in AnnotationPrefixInputs, note \in AnnotationNoteInputs,
        suffix \in AnnotationSuffixInputs }

\* author texts of up to MaxTokens name parts, some ending in a comma or
\* being one, set apart by one or more whitespace characters
NamePartInputs == { <<"J">>, <<"D", "o">>, <<"M", ",">>, <<",">> }

AuthorTextInputs ==
    { lead \o Join(parts, sep) \o trail :
        parts \in ListsUpTo(NamePartInputs, MaxTokens),
        sep \in {" ", "\t"}, lead \in {<<>>, <<" ">>}, trail \in {<<>>, <<" ", "\n">>} }
    \cup { <<"D", "o", ",", "J">>, <<" ", "\n">> }

\* a book with the authors, and one bookmark with the annotation
BookOfTexts(authors, text) ==
    [stats |-> [title |-> <<"B">>, authors |-> authors],
     bookmarks |-> << [notes |-> <<"a">>, text |-> text] >>]

InitParsers ==
    /\ \/ raw_annotation \in AnnotationTextInputs /\ raw_author = <<"J", " ", "D">>
       \/ raw_annotation = <<"t">> /\ raw_author \in AuthorTextInputs
    /\ parsed_annotation = NoCall
    /\ parsed_name = NoCall
    /\ gen = NoGen
    /\ now = ClockAt(0)
    /\ IdleMain
    /\ IdleTemplate
    /\ IdleDate
    /\ IdleBatch

ParseAnnotationTextCall ==
    /\ parsed_annotation.exc = "nocall"
    /\ parsed_annotation' = Return(parse_annotation_text(raw_annotation))
    /\ UNCHANGED <<raw_annotation, raw_author, parsed_name, mainVars, now,
                   templateVars, dateVars, batchVars>>

ParseAuthorNameCall ==
    /\ parsed_name.exc = "nocall"
    /\ parsed_name' = Return(parse_author_name(raw_author))
    /\ UNCHANGED <<raw_annotation, raw_author, parsed_annotation, mainVars, now,
                   templateVars, dateVars, batchVars>>

\* generate_markdown(metadata) for the book of raw_author and raw_annotation
GenerateWithTexts ==
    /\ gen = NoGen
    /\ gen' = generate_markdown(BookOfTexts(raw_author, raw_annotation),
                                 DEFAULT_CONFIG, now)
    /\ UNCHANGED <<pc, config_file, lua_file, output, DEFAULT_CONFIG, config,
                   metadata, files, exit_code, now, templateVars, dateVars,
                   parserVars, batchVars>>

NextParsers == ParseAnnotationTextCall \/ ParseAuthorNameCall \/ GenerateWithTexts

SpecParsers == InitParsers /\ [][NextParsers]_vars

---------------------------------------------------------------------------
(* batch_convert of batch_convert.py: the for loop over the metadata files,
   and the converter run again on the same directories *)

MaxFiles == 2

\* a book whose bookmark gives the name 2307040815.md, another book of the
\* same minute, a book without a datetime, a file that is no Lua, and a file
\* whose Lua evaluates to nil
BatchLuaInputs ==
    { [kind |-> "table", metadata |-> BookOfDatetime(Str1)],
      [kind |-> "table",
       metadata |-> [stats |-> [title |-> <<"B">>, authors |-> <<"J", " ", "D">>],
                     bookmarks |-> << [notes |-> <<"b">>, datetime |-> Str1],
                                      [notes |-> <<"c">>, datetime |-> Str2] >>]],
      [kind |-> "table",
       metadata |-> [bookmarks |-> << [notes |-> <<"d">>, text |-> <<"y">>] >>]],
      [kind |-> "unparseable", metadata |-> PyNone],
      [kind |-> "table", metadata |-> PyNone] }

MetadataFilesInputs == ListsUpTo(BatchLuaInputs, MaxFiles) \ {<<>>}

InitBatch ==
    /\ metadata_files \in MetadataFilesInputs
    /\ files = NoFiles
    /\ before = NoFiles
    /\ run = 1
    /\ index = 0
    /\ successful = 0 /\ failed = 0 /\ skipped = 0
    /\ log = << <<>> >>
    /\ pc = "for"
    /\ now = ClockAt(0)
    /\ config_file = MissingFile
    /\ lua_file = [kind |-> "missing", metadata |-> PyNone]
    /\ output = [has |-> FALSE, v |-> <<>>]
    /\ DEFAULT_CONFIG = BuiltinDefaults
    /\ config = NoConfig
    /\ metadata = PyNone
    /\ gen = NoGen
    /\ exit_code = -1
    /\ IdleTemplate
    /\ IdleDate
    /\ IdleParsers

\* what the batch converter does not touch
singleVars == <<config_file, output, DEFAULT_CONFIG, config, exit_code,
                templateVars, dateVars, parserVars>>

\* a loop body without the exists() test; the properties of the batch loop
\* must tell it from OutputPathExists
NeverExists(fs, name) == FALSE

\* output_path.exists()
OutputPathExists(fs, name) == name \in DOMAIN fs

\* progress.advance(task), and what the iteration came to
Advance(status, name) ==
    /\ index' = index + 1
    /\ log' = [log EXCEPT ![run] =
                  Append(@, [status |-> status, filename |-> name,
                             position |-> index + 1])]

\* an except clause that ends the loop; the properties of the batch loop must
\* tell it from AfterHandler
LoopAborted == "summary"

\* where the run goes on after the except clause of the loop body
AfterHandler == "for"

\* except Exception: failed += 1, and on to the next file; name is the
\* output name the iteration had come to, if any
ExceptClause(name) ==
    /\ failed' = failed + 1
    /\ Advance("failed", name)
    /\ pc' = AfterHandler
    /\ UNCHANGED <<successful, skipped>>

\* for metadata_file in metadata_files: metadata = parse_lua(metadata_file)
ParseFile ==
    /\ pc = "for"
    /\ index < Len(metadata_files)
    /\ lua_file' = metadata_files[index + 1]
    /\ IF parse_lua(lua_file').exc = "none"
       THEN /\ metadata' = parse_lua(lua_file').val
            /\ pc' = "generate_markdown"
            /\ UNCHANGED <<index, successful, failed, skipped, log>>
       ELSE ExceptClause(<<>>) /\ UNCHANGED metadata
    /\ UNCHANGED <<gen, files, metadata_files, run, before, now, singleVars>>

\* markdown, timestamp = generate_markdown(metadata): no config is passed, so
\* DEFAULT_CONFIG is used
GenerateFile ==
    /\ pc = "generate_markdown"
    /\ gen' = generate_markdown(metadata, DEFAULT_CONFIG, now)
    /\ IF gen'.exc = "none"
       THEN /\ pc' = "exists"
            /\ UNCHANGED <<index, successful, failed, skipped, log>>
       ELSE ExceptClause(<<>>)
    /\ UNCHANGED <<lua_file, metadata, files, metadata_files, run, before, now,
                   singleVars>>

\* output_path = output_dir / f"{timestamp}.md"
BatchOutputPath == TimestampFilename(gen.timestamp)

\* the target is there: skipped += 1, continue
SkipFile ==
    /\ pc = "exists"
    /\ OutputPathExists(files, BatchOutputPath)
    /\ skipped' = skipped + 1
    /\ Advance("skipped", BatchOutputPath)
    /\ pc' = "for"
    /\ UNCHANGED <<files, successful, failed>>
    /\ UNCHANGED <<lua_file, metadata, gen, metadata_files, run, before, now,
                   singleVars>>

\* save_markdown(markdown, output_path): successful += 1 when it returns,
\* the except clause when it raises
SaveFile ==
    /\ pc = "exists"
    /\ ~OutputPathExists(files, BatchOutputPath)
    /\ \E outcome \in SaveOutcomes :
          /\ files' = save_markdown(files, gen.md, BatchOutputPath, outcome).files
          /\ IF outcome = "written"
             THEN /\ successful' = successful + 1
                  /\ Advance("successful", BatchOutputPath)
                  /\ pc' = "for"
                  /\ UNCHANGED <<failed, skipped>>
             ELSE ExceptClause(BatchOutputPath)
    /\ UNCHANGED <<lua_file, metadata, gen, metadata_files, run, before, now,
                   singleVars>>

\* the loop is over: the summary table is printed and batch_convert returns
EndLoop ==
    /\ pc = "for"
    /\ index = Len(metadata_files)
    /\ pc' = "summary"
    /\ UNCHANGED <<lua_file, metadata, gen, files, index, successful, failed,
                   skipped, log, metadata_files, run, before, now, singleVars>>

\* the batch converter is started a second time on the same two directories
SecondRun ==
    /\ pc = "summary"
    /\ run = 1
    /\ run' = run + 1
    /\ before' = files
    /\ index' = 0
    /\ successful' = 0 /\ failed' = 0 /\ skipped' = 0
    /\ log' = Append(log, <<>>)
    /\ pc' = "for"
    /\ UNCHANGED <<lua_file, metadata, gen, files, metadata_files, now, singleVars>>

\* a minute passes.  The run reads the clock in generate_markdown only, so
\* the minute is let pass before an iteration or between two runs.
Tick ==
    /\ pc \in {"for", "summary"}
    /\ now.M < MaxClock
    /\ now' = ClockAt(now.M + 1)
    /\ UNCHANGED <<lua_file, metadata, gen, pc, files, batchVars, singleVars>>

NextBatch ==
    \/ ParseFile \/ GenerateFile \/ SkipFile \/ SaveFile
    \/ EndLoop \/ SecondRun \/ Tick

SpecBatch == InitBatch /\ [][NextBatch]_vars

---------------------------------------------------------------------------
(* Properties of generate_markdown, checked on Spec *)

\* a bookmark whose notes is present and not all whitespace
HasNotes(bookmark) ==
    /\ "notes" \in DOMAIN bookmark
    /\ \E i \in 1..Len(bookmark.notes) : bookmark.notes[i] \notin Whitespace

QualifyingIndices(bookmark_list) ==
    { i \in 1..Len(bookmark_list) : HasNotes(bookmark_list[i]) }

\* the highlight blocks of the bookmarks at the indices of `order`, one
\* after the other
RECURSIVE BlocksOf(_, _, _)
BlocksOf(bookmark_list, order, templates) ==
    IF Len(order) = 0 THEN <<>>
    ELSE    HighlightBlock(bookmark_list[Head(order)], templates).val
         \o BlocksOf(bookmark_list, Tail(order), templates)

\* C1: the Markdown generate_markdown returns holds exactly one highlight
\* block per bookmark whose notes is present and not all whitespace, the
\* blocks stand in the reverse of the extraction order, and a bookmark
\* without such notes adds no block.
C1_OneBlockPerNoteReversed ==
    gen.exc = "none" =>
        /\ Len(gen.rendered) = Cardinality(QualifyingIndices(metadata.bookmarks))
        /\ \A k \in 1..Len(gen.rendered) :
              gen.rendered[k] \in QualifyingIndices(metadata.bookmarks)
        /\ \A k, l \in 1..Len(gen.rendered) :
              k < l => gen.rendered[k] > gen.rendered[l]
        /\ gen.highlights_content =
              BlocksOf(metadata.bookmarks, gen.rendered, config.templates)
        /\ gen.md =    gen.yaml_frontmatter \o gen.intro_text
                    \o Strip(gen.highlights_content)

\* three bookmarks, two of them rendered around one that is left out
C1_Witness ==
    /\ gen.exc = "none"
    /\ Len(metadata.bookmarks) = 3
    /\ gen.rendered = <<3, 1>>

\* the tree with every bookmark without qualifying notes removed
WithoutBlank(meta) == [meta EXCEPT !.bookmarks = SelectSeq(@, HasNotes)]

\* C2 as stated: generate_markdown returns the same Markdown text as for the
\* tree with all bookmarks of absent or blank notes removed, wherever they
\* sit in the list.
C2_SameMarkdownWithoutBlank ==
    gen.exc = "none" =>
        generate_markdown(WithoutBlank(metadata), config, now).md = gen.md

\* what the removal leaves the same: reduced is what generate_markdown
\* returns for the tree without the bookmarks
SameWithoutBlank(meta, generated, reduced) ==
    /\ reduced.exc = "none"
    /\ reduced.intro_text = generated.intro_text
    /\ reduced.highlights_content = generated.highlights_content
    /\ (   /\ CreatedAt(WithoutBlank(meta)) = CreatedAt(meta)
           /\ UpdatedAt(WithoutBlank(meta)) = UpdatedAt(meta)
        => reduced.md = generated.md)

\* C2, amended: a bookmark of absent or blank notes changes neither the
\* intro nor the highlight blocks, and the whole Markdown is the same as for
\* the tree without such bookmarks whenever the first and the last bookmark
\* of the list carry the same datetime with and without them.
C2_BlankNotesOnlyDates ==
    gen.exc = "none" =>
        SameWithoutBlank(metadata, gen,
            generate_markdown(WithoutBlank(metadata), config, now))

\* a blank bookmark between two rendered ones
C2_Witness ==
    /\ gen.exc = "none"
    /\ Len(metadata.bookmarks) = 3
    /\ ~HasNotes(metadata.bookmarks[2])
    /\ "notes" \in DOMAIN metadata.bookmarks[2]
    /\ gen.rendered = <<3, 1>>
    /\ gen.md = generate_markdown(WithoutBlank(metadata), config, now).md

---------------------------------------------------------------------------
(* Properties of format_template, checked on SpecTemplate *)

\* the field names of t that are not among `names`
Unsupplied(t, names) ==
    { t[i] : i \in { j \in 1..Len(t) : IsField(t[j]) /\ FieldName[t[j]] \notin names } }

\* a line that is a label and a colon, with or without blanks after it
BareLabel(line) ==
    /\ Len(Strip(line)) >= 2
    /\ Strip(line)[Len(Strip(line))] = ":"
    /\ \A i \in 1..(Len(Strip(line)) - 1) : Strip(line)[i] \notin {":", " "}

NotBareLabel(line) == ~BareLabel(line)

\* C3 as stated: after the substitution every line that is only a label and
\* a colon is removed from the text format_template returns, and all other
\* lines are kept in order.
C3_BareLabelLinesRemoved ==
    (result # NoCall /\ Unsupplied(template, DOMAIN kwargs) = {}) =>
        result = Return(Join(SelectSeq(
                     Split(Substitute(template, formatted_kwargs(kwargs)), "\n"),
                     NotBareLabel), "\n"))

\* the keywords generate_markdown passes for the front matter
YamlFields == {"title", "lastname", "firstname", "rating", "note",
               "date_created", "date_updated"}

\* C9: when the template names a placeholder no value was given for,
\* format_template returns the template as passed in, and generate_markdown
\* called with such a front matter template still returns.
C9_MissingPlaceholderKeepsTemplate ==
    /\ (result # NoCall /\ Unsupplied(template, DOMAIN kwargs) # {}) =>
          result = Return(template)
    /\ (gen # NoGen /\ Unsupplied(template, YamlFields) # {}) =>
          /\ gen.exc = "none"
          /\ gen.yaml_frontmatter = template
          /\ SubSeq(gen.md, 1, Len(template)) = template

\* a template of a supplied and an unsupplied placeholder, formatted and
\* rendered
C9_Witness ==
    /\ result = Return(template)
    /\ gen.exc = "none"
    /\ "{isbn}" \in Unsupplied(template, DOMAIN kwargs)
    /\ \E i \in 1..Len(template) : template[i] = "{title}"
    /\ kwargs.title # <<>>

---------------------------------------------------------------------------
(* Properties of load_config, checked on SpecConfig *)

Sections == {"output", "templates"}

\* the sections the user's file gives
UserSections ==
    IF config_file.kind = "toml" THEN Sections \cap DOMAIN config_file.doc ELSE {}

\* the file loads and every section it gives is a table
WellShaped ==
    /\ config_file.kind = "toml"
    /\ \A name \in UserSections : config_file.doc[name].shape = "table"

\* the file is missing, does not load, or gives a section that is no table
Malformed == ~WellShaped

UserItems(name) ==
    IF name \in UserSections THEN config_file.doc[name].items ELSE <<>>

UserKeys(name) == { UserItems(name)[i].key : i \in 1..Len(UserItems(name)) }

UserValue(name, key) ==
    UserItems(name)[CHOOSE i \in 1..Len(UserItems(name)) :
                        UserItems(name)[i].key = key].value

\* C7: in the config load_config returns for a user file, each of the
\* sections output and templates holds the user's value under every key the
\* user gives and the built-in default under every other key, and no key of
\* the defaults is lost.
C7_MergedKeyByKey ==
    (pc # "load_config" /\ WellShaped) =>
        \A name \in Sections :
            /\ DOMAIN config[name] = DOMAIN BuiltinDefaults[name] \cup UserKeys(name)
            /\ \A key \in DOMAIN config[name] :
                  config[name][key] = IF key \in UserKeys(name)
                                      THEN UserValue(name, key)
                                      ELSE BuiltinDefaults[name][key]

\* a user file that overrides one template and adds an output key
C7_Witness ==
    /\ pc # "load_config"
    /\ WellShaped
    /\ UserKeys("templates") = {"highlight"}
    /\ UserKeys("output") = {"suffix"}
    /\ config.templates.highlight = <<"*", " ", "{text}">>
    /\ config.templates.separator = BuiltinDefaults.templates.separator
    /\ config.output.filename_template = BuiltinDefaults.output.filename_template

\* C8 as stated: for a configuration file that is missing or malformed,
\* load_config returns a configuration equal to the built-in defaults in
\* every key, and the Markdown rendered with it is the Markdown rendered
\* with the built-in defaults.
C8_MalformedGivesDefaults ==
    (pc # "load_config" /\ Malformed) =>
        /\ config = BuiltinDefaults
        /\ gen.exc = "none" =>
              gen.md = generate_markdown(metadata, BuiltinDefaults, now).md

---------------------------------------------------------------------------
(* Properties of the date functions, checked on SpecDate *)

\* the characters of s at the indices of `at` are digits
DigitsAt(s, at) == \A i \in at : s[i] \in Digits

TwoAt(s, i) == 10 * DigitVal[s[i]] + DigitVal[s[i + 1]]

\* a YYYY-MM-DD HH:MM:SS string of an existing date and time
WellFormed(s) ==
    /\ IsStr(s)
    /\ Len(s) = 19
    /\ s[5] = "-" /\ s[8] = "-" /\ s[11] = " " /\ s[14] = ":" /\ s[17] = ":"
    /\ DigitsAt(s, {1, 2, 3, 4, 6, 7, 9, 10, 12, 13, 15, 16, 18, 19})
    /\ 100 * TwoAt(s, 1) + TwoAt(s, 3) >= 1
    /\ TwoAt(s, 6) \in 1..12
    /\ TwoAt(s, 9) \in 1..DaysInMonth(100 * TwoAt(s, 1) + TwoAt(s, 3), TwoAt(s, 6))
    /\ TwoAt(s, 12) \in 0..23
    /\ TwoAt(s, 15) \in 0..59
    /\ TwoAt(s, 18) \in 0..59

\* YYMMDDHHMM and YYYY-MM-DD of a well-formed string, by position
StampByPosition(s) ==
    <<s[3], s[4], s[6], s[7], s[9], s[10], s[12], s[13], s[15], s[16]>>
DateByPosition(s) == SubSeq(s, 1, 10)

\* C10 as stated: for a datetime value that is no well-formed
\* YYYY-MM-DD HH:MM:SS string parse_bookmark_datetime returns the current
\* time, format_date_for_yaml the current date, neither raises, and
\* generate_markdown returns a result; for a well-formed one they return the
\* reformatted input.
C10_MalformedDatetimeNeverFatal ==
    /\ stamp # NoCall =>
          stamp = IF WellFormed(datetime_str)
                  THEN Return(StampByPosition(datetime_str))
                  ELSE Return(generate_timestamp(now))
    /\ date # NoCall =>
          date = IF WellFormed(datetime_str)
                 THEN Return(DateByPosition(datetime_str))
                 ELSE Return(StrftimeDate(now))
    /\ gen # NoGen => gen.exc = "none"

---------------------------------------------------------------------------
(* Properties of the batch loop, checked on SpecBatch *)

\* the iteration is at the exists() test and the target is in the directory
TargetThere == pc = "exists" /\ TimestampFilename(gen.timestamp) \in DOMAIN files

\* C4: when the target <timestamp>.md is there at the moment the book is
\* processed, the iteration leaves every file as it is (save_markdown is not
\* called) and counts the book in skipped only.
C4_ExistingTargetSkipped ==
    [][ (TargetThere /\ pc' # pc) =>
            /\ files' = files
            /\ skipped' = skipped + 1
            /\ successful' = successful
            /\ failed' = failed ]_vars

\* a book was skipped whose Markdown is not what the file of its name holds
C4_Witness ==
    /\ pc = "for"
    /\ index > 0
    /\ Len(log[run]) = index
    /\ log[run][index].status = "skipped"
    /\ skipped > 0
    /\ gen.exc = "none"
    /\ files[log[run][index].filename] # gen.md

\* how many iterations of this run came to `status`
Counted(status) ==
    Cardinality({ i \in 1..Len(log[run]) : log[run][i].status = status })

\* C5: every metadata file is gone through once, in scan order, and counted
\* in exactly one of successful, failed and skipped, whatever fails; the
\* loop ends only when all files are through, and then
\* successful + failed + skipped is the number of files.
C5_EveryFileCountedOnce ==
    /\ index <= Len(metadata_files)
    /\ Len(log[run]) = index
    /\ \A i \in 1..index : log[run][i].position = i
    /\ successful = Counted("successful")
    /\ failed = Counted("failed")
    /\ skipped = Counted("skipped")
    /\ successful + failed + skipped = index
    /\ pc = "summary" =>
          successful + failed + skipped = Len(metadata_files)

\* the first file failed, a later one was converted, and the loop is over
C5_Witness ==
    /\ pc = "summary"
    /\ Len(metadata_files) = 2
    /\ log[run][1].status = "failed"
    /\ log[run][2].status = "successful"
    /\ failed = 1 /\ successful = 1

FirstDatetimeParses(file) ==
    /\ file.kind = "table"
    /\ ~IsNone(file.metadata)
    /\ Len(BookmarkList(file.metadata)) > 0
    /\ "datetime" \in DOMAIN BookmarkList(file.metadata)[1]
    /\ Strptime(BookmarkList(file.metadata)[1].datetime).exc = "none"

---------------------------------------------------------------------------
(* Properties of the front-matter dates, checked on Spec *)

\* the date the front matter shows for the datetime of the bookmark at
\* index i: nothing when the list is empty or the bookmark has no datetime
\* or an empty one, the date part of a well-formed datetime
PositionalDate(bookmark_list, i, clock) ==
    IF Len(bookmark_list) = 0 THEN <<>>
    ELSE IF "datetime" \notin DOMAIN bookmark_list[i] THEN <<>>
    ELSE IF bookmark_list[i].datetime = <<>> THEN <<>>
    ELSE IF WellFormed(bookmark_list[i].datetime)
    THEN DateByPosition(bookmark_list[i].datetime)
    ELSE StrftimeDate(clock)

\* the front matter rendered with the given two dates
FrontMatterWith(meta, templates, date_created, date_updated) ==
    format_template(templates.yaml_frontmatter,
        YamlKwargs(meta, parse_author_name(Authors(meta)),
                   Return(date_created), Return(date_updated))).val

\* C11: the front-matter dates are positional.  date_created is the date of
\* the first bookmark's datetime and date_updated the date of the last
\* bookmark's datetime, whatever the datetimes of the other bookmarks are,
\* and each is left empty when that bookmark has no datetime.  (Stated of the
\* front matter at the return of generate_markdown.)
C11_DatesArePositional ==
    (pc = "save_markdown" /\ gen.exc = "none") =>
        gen.yaml_frontmatter =
            FrontMatterWith(metadata, config.templates,
                PositionalDate(metadata.bookmarks, 1, now),
                PositionalDate(metadata.bookmarks, Len(metadata.bookmarks), now))

\* three bookmarks: the first dated 2024, the second dated 2022, the last
\* without a datetime; the front matter shows 2024 and an empty date_updated
C11_Witness ==
    /\ gen.exc = "none"
    /\ Len(metadata.bookmarks) = 3
    /\ "datetime" \in DOMAIN metadata.bookmarks[1]
    /\ "datetime" \in DOMAIN metadata.bookmarks[2]
    /\ metadata.bookmarks[1].datetime = Str2
    /\ metadata.bookmarks[2].datetime = Str3
    /\ "datetime" \notin DOMAIN metadata.bookmarks[3]
    /\ gen.yaml_frontmatter =
             <<"t", ":", " ">> \o Title(metadata)
          \o <<"\n", "c", ":", " ">> \o SubSeq(Str2, 1, 10)
          \o <<"\n", "u", ":", " ", "\n">>

---------------------------------------------------------------------------
(* Properties of parse_annotation_text and parse_author_name, checked on
   SpecParsers *)

AllWhitespace(s, i, j) == \A k \in i..j : s[k] \in Whitespace

\* s without its leading and trailing whitespace
Trimmed(s) ==
    IF AllWhitespace(s, 1, Len(s)) THEN <<>>
    ELSE SubSeq(s,
                CHOOSE i \in 1..Len(s) :
                    s[i] \notin Whitespace /\ AllWhitespace(s, 1, i - 1),
                CHOOSE j \in 1..Len(s) :
                    s[j] \notin Whitespace /\ AllWhitespace(s, j + 1, Len(s)))

\* <<d0, r0>>: s is `Page`, whitespace up to d0, digits up to d1, whitespace
\* up to r0, with the whitespace runs taken as long as they are
PagePrefixes(s) ==
    { c \in (6..Len(s)) \X (8..(Len(s) + 1)) :
        /\ StartsWith(s, <<"P", "a", "g", "e">>)
        /\ AllWhitespace(s, 5, c[1] - 1)
        /\ \E d1 \in (c[1] + 1)..(c[2] - 1) :
              /\ \A k \in c[1]..(d1 - 1) : s[k] \in Digits
              /\ AllWhitespace(s, d1, c[2] - 1)
        /\ c[2] <= Len(s) => s[c[2]] \notin Whitespace }

HasPagePrefix(s) == PagePrefixes(s) # {}
PagePrefix(s) == CHOOSE c \in PagePrefixes(s) : TRUE

\* the digit group of the prefix
PageNumber(s) ==
    SubSeq(s, PagePrefix(s)[1],
           (CHOOSE d1 \in (PagePrefix(s)[1] + 1)..Len(s) : s[d1] \notin Digits) - 1)

\* everything after the prefix
Remainder(s) == SubSeq(s, PagePrefix(s)[2], Len(s))

\* where the text ends for `$`: at its end, or before a final line break
TextEnd(r) == IF Len(r) > 0 /\ r[Len(r)] = "\n" THEN Len(r) - 1 ELSE Len(r)

\* <<q, p>>: r ends in whitespace, "@" at q, whitespace, a date at p,
\* whitespace, a time
TimestampSuffixes(r) ==
    { c \in (2..Len(r)) \X (4..Len(r)) :
        /\ r[c[1]] = "@"
        /\ r[c[1] - 1] \in Whitespace
        /\ c[2] > c[1] + 1
        /\ AllWhitespace(r, c[1] + 1, c[2] - 1)
        /\ ShapeAt(r, c[2], <<"d", "d", "d", "d", "-", "d", "d", "-", "d", "d">>)
        /\ TextEnd(r) - 7 > c[2] + 10
        /\ AllWhitespace(r, c[2] + 10, TextEnd(r) - 8)
        /\ ShapeAt(r, TextEnd(r) - 7, <<"d", "d", ":", "d", "d", ":", "d", "d">>) }

HasTimestampSuffix(r) == TimestampSuffixes(r) # {}
TimestampSuffix(r) == CHOOSE c \in TimestampSuffixes(r) : TRUE

\* text and timestamp of the remainder r of an annotation of page number page
SplitRemainder(page, r) ==
    IF HasTimestampSuffix(r)
    THEN [page |-> page,
          text |-> Trimmed(SubSeq(r, 1, TimestampSuffix(r)[1] - 1)),
          timestamp |-> SubSeq(r, TimestampSuffix(r)[2], TextEnd(r))]
    ELSE [page |-> page, text |-> Trimmed(r), timestamp |-> <<>>]

\* C12 as stated: parse_annotation_text never fails; for a text that starts
\* with `Page`, whitespace, digits, whitespace, page is the digit group and
\* everything after that prefix is split into the text, trimmed, and the
\* timestamp of a trailing ` @ YYYY-MM-DD HH:MM:SS`, or is the text, trimmed,
\* when there is no such suffix; any other text is returned verbatim as text
\* with page and timestamp empty.
C12_WholeRemainderParsed ==
    parsed_annotation.exc # "nocall" =>
        /\ parsed_annotation.exc = "none"
        /\ parsed_annotation.val =
              IF HasPagePrefix(raw_annotation)
              THEN SplitRemainder(PageNumber(raw_annotation), Remainder(raw_annotation))
              ELSE [page |-> <<>>, text |-> raw_annotation, timestamp |-> <<>>]

\* the tokens of s, as <<first, last>> index pairs: the maximal runs of
\* characters that are no whitespace
Tokens(s) ==
    { c \in (1..Len(s)) \X (1..Len(s)) :
        /\ c[1] <= c[2]
        /\ \A k \in c[1]..c[2] : s[k] \notin Whitespace
        /\ c[1] > 1 => s[c[1] - 1] \in Whitespace
        /\ c[2] < Len(s) => s[c[2] + 1] \in Whitespace }

LastToken(s) == CHOOSE c \in Tokens(s) : \A o \in Tokens(s) : o[1] <= c[1]

\* the tokens of T, in the order they stand in s, joined by single spaces
RECURSIVE JoinedTokens(_, _)
JoinedTokens(s, T) ==
    IF T = {} THEN <<>>
    ELSE LET first == CHOOSE c \in T : \A o \in T : c[1] <= o[1]
         IN     SubSeq(s, first[1], first[2])
             \o (IF T = {first} THEN <<>>
                 ELSE <<" ">> \o JoinedTokens(s, T \ {first}))

FirstComma(s) == CHOOSE i \in 1..Len(s) : s[i] = "," /\ \A k \in 1..(i - 1) : s[k] # ","

\* what C13 says of the name <<lastname, firstname>> returned for s
NameAsClaimed(s, lastname, firstname) ==
    /\ lastname = Trimmed(lastname)
    /\ firstname = Trimmed(firstname)
    /\ IF \E i \in 1..Len(s) : s[i] = ","
       THEN /\ lastname = Trimmed(SubSeq(s, 1, FirstComma(s) - 1))
            /\ firstname = Trimmed(SubSeq(s, FirstComma(s) + 1, Len(s)))
       ELSE IF Cardinality(Tokens(s)) > 1
       THEN /\ lastname = SubSeq(s, LastToken(s)[1], LastToken(s)[2])
            /\ firstname = JoinedTokens(s, Tokens(s) \ {LastToken(s)})
       ELSE IF Cardinality(Tokens(s)) = 1
       THEN /\ lastname = SubSeq(s, LastToken(s)[1], LastToken(s)[2])
            /\ firstname = <<>>
       ELSE TRUE

\* C13: parse_author_name returns (lastname, firstname), both without
\* leading or trailing whitespace.  A text with a comma is split at its first
\* comma only, the left part being lastname and the right part firstname;
\* any other text is split on whitespace, the last token being lastname and
\* the tokens before it, joined by single spaces, firstname, and a single
\* token is lastname with an empty firstname.
C13_AuthorNameSplit ==
    parsed_name.exc # "nocall" =>
        /\ parsed_name.exc = "none"
        /\ NameAsClaimed(raw_author, parsed_name.val[1], parsed_name.val[2])

\* a text with two commas, split at the first: "M, J ," gives ("M", "J ,")
C13_Witness ==
    /\ raw_author = <<"M", ",", " ", "J", " ", ",">>
    /\ parsed_name = Return(<< <<"M">>, <<"J", " ", ",">> >>)

---------------------------------------------------------------------------
(* Properties of the end of the document, checked on Spec *)

\* C14 as stated: the Markdown generate_markdown returns never ends with
\* whitespace or blank lines, whatever the metadata tree is, a tree without
\* bookmarks or without a bookmark of non-blank notes included.
C14_NoTrailingWhitespace ==
    gen.exc = "none" =>
        \/ Len(gen.md) = 0
        \/ gen.md[Len(gen.md)] \notin Whitespace

---------------------------------------------------------------------------
(* Properties of main, checked on Spec *)

\* the steps of main that have been executed when main is at statement at
StepsBefore(at) ==
    CASE at = "load_config" -> {}
      [] at = "parse_lua" -> {"load_config"}
      [] at = "generate_markdown" -> {"load_config", "parse_lua"}
      [] at = "save_markdown" -> {"load_config", "parse_lua", "generate_markdown"}

\* what the variables show of the steps executed so far
Executed ==
    (IF config # NoConfig THEN {"load_config"} ELSE {})
    \cup (IF config # NoConfig /\ pc \notin {"load_config", "parse_lua"}
             /\ parse_lua(lua_file).exc = "none"
          THEN {"parse_lua"} ELSE {})
    \cup (IF gen # NoGen THEN {"generate_markdown"} ELSE {})

\* the run ended in the handler, at the first step that raised
EndedAtFirstFailure ==
    \/ /\ parse_lua(lua_file).exc # "none"
       /\ metadata = PyNone /\ gen = NoGen /\ files = NoFiles
    \/ /\ parse_lua(lua_file).exc = "none"
       /\ gen.exc \notin {"none", "nocall"}
       /\ files = NoFiles
    \/ /\ parse_lua(lua_file).exc = "none"
       /\ gen.exc = "none"
       /\ DOMAIN files \subseteq {OutputPath}
       /\ \A name \in DOMAIN files : files[name] # gen.md

\* C15: main runs load_config, parse_lua, generate_markdown and
\* save_markdown in this order; the first of them that raises ends the run
\* with exit status 1 and no later step is executed, so that no output file
\* is written when parsing or generation fails; a run in which none raises
\* ends with status 0 and has written exactly one file, the Markdown at the
\* output path.
C15_FirstFailureEndsRun ==
    /\ pc # "exit" =>
          /\ exit_code = -1
          /\ files = NoFiles
          /\ Executed = StepsBefore(pc)
          /\ gen # NoGen => gen.exc = "none"
    /\ pc = "exit" =>
          /\ exit_code \in {0, 1}
          /\ config # NoConfig
          /\ exit_code = 1 => EndedAtFirstFailure
          /\ exit_code = 0 =>
                /\ parse_lua(lua_file).exc = "none"
                /\ gen.exc = "none"
                /\ DOMAIN files = {OutputPath}
                /\ files[OutputPath] = gen.md

\* generation raised: the run ended with status 1 and no file
C15_Witness ==
    /\ pc = "exit"
    /\ exit_code = 1
    /\ parse_lua(lua_file).exc = "none"
    /\ gen.exc = "ValueError"
    /\ files = NoFiles

---------------------------------------------------------------------------
(* Properties of DEFAULT_CONFIG, checked on SpecConfig *)

\* C16 as stated: load_config leaves the built-in defaults as they are.
\* After the call DEFAULT_CONFIG holds the built-in values, so that a later
\* load_config for a missing file returns them and a later generate_markdown
\* without a config renders with the built-in templates.
C16_DefaultsUnchanged ==
    /\ DEFAULT_CONFIG = BuiltinDefaults
    /\ load_config(MissingFile, DEFAULT_CONFIG).config = BuiltinDefaults
    /\ gen.exc = "none" =>
          generate_markdown(metadata, DEFAULT_CONFIG, now).md =
              generate_markdown(metadata, BuiltinDefaults, now).md

---------------------------------------------------------------------------
(* Properties of the filename timestamp, checked on Spec *)

\* C17: the timestamp generate_markdown returns is that of the first
\* bookmark alone.  It is the YYMMDDHHMM form of the first bookmark's
\* datetime when that bookmark has one, and the current time when it has
\* none, whatever datetimes the later bookmarks carry, or when there is no
\* bookmark.
C17_TimestampFromFirstBookmark ==
    gen.exc = "none" =>
        IF Len(metadata.bookmarks) = 0 THEN gen.timestamp = StrftimeStamp(now)
        ELSE IF "datetime" \notin DOMAIN metadata.bookmarks[1]
        THEN gen.timestamp = StrftimeStamp(now)
        ELSE WellFormed(metadata.bookmarks[1].datetime) =>
                 gen.timestamp = StampByPosition(metadata.bookmarks[1].datetime)

\* the first bookmark has no datetime, the two after it have one, and the
\* timestamp is the current time
C17_Witness ==
    /\ gen.exc = "none"
    /\ Len(metadata.bookmarks) = 3
    /\ "datetime" \notin DOMAIN metadata.bookmarks[1]
    /\ "datetime" \in DOMAIN metadata.bookmarks[2]
    /\ "datetime" \in DOMAIN metadata.bookmarks[3]
    /\ metadata.bookmarks[2].datetime = Str1
    /\ metadata.bookmarks[3].datetime = Str3
    /\ gen.timestamp = <<"2", "4", "0", "1", "0", "1", "1", "0", "0", "0">>

---------------------------------------------------------------------------
(* Properties of the output names of one batch run, checked on SpecBatch *)

\* the iterations of this run that came to the output name
Yielding(name) == { i \in 1..Len(log[run]) : log[run][i].filename = name }

\* the output names this run came to that were free when it started
FreshNames ==
    { log[run][i].filename : i \in 1..Len(log[run]) } \ ({<<>>} \cup DOMAIN before)

FirstYielding(name) ==
    CHOOSE i \in Yielding(name) : \A j \in Yielding(name) : i <= j

\* the files this run has created
Created == DOMAIN files \ DOMAIN before

\* the Markdown of the book at position i of the scan
MarkdownOf(i) == generate_markdown(metadata_files[i].metadata, DEFAULT_CONFIG, now).md

DistinctSuccessfulNames ==
    \A i, j \in 1..Len(log[run]) :
        (i < j /\ log[run][i].status = "successful" /\ log[run][j].status = "successful")
            => log[run][i].filename # log[run][j].filename

Written(name) == { i \in Yielding(name) : log[run][i].status = "successful" }

\* what holds of the names and counts of the run in every state
WrittenNames ==
    /\ DistinctSuccessfulNames
    /\ Cardinality({ name \in Created : Written(name) # {} }) = successful
    /\ \A name \in Created :
          /\ Yielding(name) # {}
          /\ Written(name) = {} =>
                /\ files[name] = <<>>
                /\ \E i \in Yielding(name) : log[run][i].status = "failed"
    /\ \A name \in FreshNames :
          /\ log[run][FirstYielding(name)].status \in {"successful", "failed"}
          /\ \A i \in Written(name) :
                \A j \in Yielding(name) : j > i => log[run][j].status = "skipped"
          /\ \A i, j \in Yielding(name) :
                (i < j /\ log[run][i].status = "skipped")
                    => log[run][j].status = "skipped"
          /\ name \notin DOMAIN files =>
                \A i \in Yielding(name) : log[run][i].status = "failed"
    /\ (pc = "for" /\ index > 0 /\ log[run][index].status = "successful") =>
          /\ log[run][index].filename \in DOMAIN files
          /\ files[log[run][index].filename] = gen.md

\* a file that is in the output directory is not written again
FilesKept == \A name \in DOMAIN files : name \in DOMAIN files' /\ files'[name] = files[name]

====
